---- MODULE Spec2Model ----
(***************************************************************************)
(* Banner (src/src/components/Banner.tsx) and PlaceholderImage             *)
(* (src/src/components/PlaceholderImage.tsx) as state machines.            *)
(*                                                                         *)
(* Banner: one component instance, the browser clock, and the browser's    *)
(* timer queue.  Handlers run to completion (one action each); the         *)
(* functional state updaters a handler queues are applied in order as part *)
(* of the handler's action.  Timers fire at their deadline: the clock      *)
(* never passes a pending deadline, and events that occur in the deadline's*)
(* millisecond may run before or after the callback.                       *)
(*                                                                         *)
(* Numbers that the code computes from Math.random() are kept exact as     *)
(* integers: Math.random() is r / RandDen with r in 0 .. RandDen-1, and    *)
(* x, y, rotation are stored multiplied by RandDen, scale by 10 * RandDen. *)
(*                                                                         *)
(* An optional prop is << >> when absent and <<v>> when given.             *)
(***************************************************************************)
EXTENDS Integers, Sequences, FiniteSets, TLC

VARIABLES
    images,          \* the images prop (Banner.tsx:23)
    mounted,         \* the component instance is mounted
    containerRef,    \* containerRef.current is set (Banner.tsx:29,135)
    floatingImages,  \* useState<FloatingImage[]> (Banner.tsx:27)
    mousePosition,   \* useState({x, y}) (Banner.tsx:28)
    imageCounter,    \* imageCounter.current (Banner.tsx:30)
    cleanupTimer,    \* cleanupTimer.current (Banner.tsx:31)
    timers,          \* the browser's pending setTimeout callbacks, in creation order
    now,             \* Date.now()
    lastEvent,       \* the handler or callback that ran last, with what it saw
    eventCount,      \* input events handled so far
    phProps,         \* the props PlaceholderImage is called with
    phSvg            \* the element PlaceholderImage returned

bannerVars == <<images, mounted, containerRef, floatingImages, mousePosition,
                imageCounter, cleanupTimer, timers, now, lastEvent, eventCount>>
phVars == <<phProps, phSvg>>
vars == <<bannerVars, phVars>>

----------------------------------------------------------------------------
(* Program constants *)

ThrottleMs == 80
MaxLive == 12
RetireKeep == 6
RetireDelayMs == 500
LeaveDelayMs == 200
TouchKeep == 3
JitterSpread == 100
RotationSpread == 12
ZIndexRange == 15
DefaultWidth == 800
DefaultHeight == 600
OpacityFloor == 15     \* 0.15, in hundredths
OpacityStep == 8       \* 0.08, in hundredths

(* Bounds of the model *)

StartTime == 1000      \* Date.now() at mount
Horizon == 240         \* the clock is not advanced at or after StartTime + Horizon
MaxEvents == 3         \* input events (pointer-move, pointer-leave, touch-move) per run
MaxInitBursts == 6     \* SpecTrail starts after up to this many accepted bursts
RandDen == 1000        \* Math.random() is r / RandDen
RectLeft == 10         \* getBoundingClientRect().left
RectTop == 20          \* getBoundingClientRect().top

TickSteps == {ThrottleMs, RetireDelayMs}
ClientPoints == {[clientX |-> 110, clientY |-> 70], [clientX |-> 400, clientY |-> 220]}
TrailClientPoints == {[clientX |-> 110, clientY |-> 70]}
ImageLists == {<< >>, <<"a.jpg", "b.jpg">>}

(* The values Math.random() returns to one handler call, in call order:   *)
(* at most 1 + 2 * 6 calls (Banner.tsx:65-74).                             *)
Stream(a, b) == [i \in 1..13 |-> IF i % 2 = 1 THEN a ELSE b]
RandomStreams == {Stream(0, 0), Stream(RandDen - 1, RandDen - 1)}
TrailRandomStreams == {Stream(0, RandDen - 1), Stream(RandDen - 1, 0)}

----------------------------------------------------------------------------
(* Helpers *)

Min(a, b) == IF a <= b THEN a ELSE b
Max(a, b) == IF a >= b THEN a ELSE b

\* Array.prototype.slice(-n) for n > 0: the last n elements
SliceLast(s, n) == SubSeq(s, Max(1, Len(s) - n + 1), Len(s))

Ev(kind, x, y, n, prevLen, mid, setAt, prevAccept, cancelled) ==
    [kind |-> kind, x |-> x, y |-> y, n |-> n, prevLen |-> prevLen, mid |-> mid,
     setAt |-> setAt, prevAccept |-> prevAccept, cancelled |-> cancelled]
NoTimer == [kind |-> "none", setAt |-> 0, deadline |-> 0]
Origin == [x |-> 0, y |-> 0]

\* setTimeout(cb, delay) at time t: the handle it returns, and the timer queue
\* with the new entry at its end
TimerHandle(kind, t, delay) == [kind |-> kind, setAt |-> t, deadline |-> t + delay]
SetTimeout(q, kind, t, delay) == Append(q, TimerHandle(kind, t, delay))

\* clearTimeout(h): the entry h leaves the queue; a fired or cleared h is a no-op
ClearTimeout(q, h) == SelectSeq(q, LAMBDA t : t # h)

Deadlines(q) == {q[i].deadline : i \in 1..Len(q)}
NextDeadline(q) == CHOOSE d \in Deadlines(q) : \A e \in Deadlines(q) : d <= e
\* the callback the browser runs next: earliest deadline, then creation order
NextTimerIndex(q) ==
    CHOOSE i \in 1..Len(q) :
        /\ q[i].deadline = NextDeadline(q)
        /\ \A j \in 1..(i - 1) : q[j].deadline # NextDeadline(q)
RemoveAt(q, i) == SubSeq(q, 1, i - 1) \o SubSeq(q, i + 1, Len(q))
Pending(kind) == {i \in 1..Len(timers) : timers[i].kind = kind}

----------------------------------------------------------------------------
(* getRandomImageProps and image creation *)

\* mutant: the jitter is not centred (Math.random() * 100)
getRandomImagePropsUncentred(x, y, rnd, k) ==
    [x        |-> x * RandDen + rnd[k] * JitterSpread,
     y        |-> y * RandDen + rnd[k + 1] * JitterSpread,
     rotation |-> ((2 * rnd[k + 2] - RandDen) * RotationSpread) \div 2,
     scale    |-> 9 * RandDen + 3 * rnd[k + 3],
     zIndex   |-> (rnd[k + 4] * ZIndexRange) \div RandDen]
\* getRandomImageProps(x, y), drawing rnd[k], ..., rnd[k+4]
getRandomImageProps(x, y, rnd, k) ==
    [x        |-> x * RandDen + ((2 * rnd[k] - RandDen) * JitterSpread) \div 2,
     y        |-> y * RandDen + ((2 * rnd[k + 1] - RandDen) * JitterSpread) \div 2,
     rotation |-> ((2 * rnd[k + 2] - RandDen) * RotationSpread) \div 2,
     scale    |-> 9 * RandDen + 3 * rnd[k + 3],
     zIndex   |-> (rnd[k + 4] * ZIndexRange) \div RandDen]

\* memoizedImages[Math.floor(Math.random() * memoizedImages.length)];
\* an index outside the array reads undefined
RandomImage(r) ==
    LET i == (r * Len(images)) \div RandDen
    IN  IF i < Len(images) THEN images[i + 1] ELSE "undefined"

\* Math.random() > 0.8 ? 2 : 1
NumImages(r) == IF 10 * r > 8 * RandDen THEN 2 ELSE 1

\* the object literal newImage, drawing rnd[k], ..., rnd[k+5]
MakeImage(id, x, y, rnd, k) ==
    LET p == getRandomImageProps(x, y, rnd, k + 1)
    IN  [id |-> id, src |-> RandomImage(rnd[k]),
         x |-> p.x, y |-> p.y, rotation |-> p.rotation,
         scale |-> p.scale, zIndex |-> p.zIndex]

\* `img-${now}-${i}` and `touch-${Date.now()}`
MouseId(t, i) == "img-" \o ToString(t) \o "-" \o ToString(i)
TouchId(t) == "touch-" \o ToString(t)

\* mutant: the oldest entries are kept (slice(0, 12))
AppendAndTrimHead(prev, img) == SubSeq(Append(prev, img), 1, Min(Len(prev) + 1, MaxLive))
\* mutant: the list is cut one entry too late
AppendAndTrimLate(prev, img) == SliceLast(Append(prev, img), MaxLive + 1)
\* the updater of onMouseMove: [...prev, newImage].slice(-12)
AppendAndTrim(prev, img) == SliceLast(Append(prev, img), MaxLive)
\* mutant: one previous entry too many is kept
TouchUpdateWide(prev, img) == Append(SliceLast(prev, TouchKeep + 1), img)
\* the updater of onTouch: [...prev.slice(-3), newImage]
TouchUpdate(prev, img) == Append(SliceLast(prev, TouchKeep), img)
\* mutant: the retirement keeps one entry too many
RetireUpdateWide(prev) == SliceLast(prev, RetireKeep + 1)
\* the updater of the retirement timer: prev.slice(-6)
RetireUpdate(prev) == SliceLast(prev, RetireKeep)
\* mutant: the clear keeps the newest entry
ClearUpdateKeepsLast(prev) == SliceLast(prev, 1)
\* the clear-on-leave timer: setFloatingImages([])
ClearUpdate(prev) == << >>

\* the spawn loop of onMouseMove at time t, for numImages = n: the list after
\* each queued updater
Spawn(prev, n, x, y, rnd, t) ==
    LET one == AppendAndTrim(prev, MakeImage(MouseId(t, 0), x, y, rnd, 2))
    IN  IF n = 1 THEN <<one>>
        ELSE <<one, AppendAndTrim(one, MakeImage(MouseId(t, 1), x, y, rnd, 8))>>

\* mutant: the handlers do not check the ref
RefMissingUnchecked == FALSE
\* if (!containerRef.current) return
RefMissing == ~containerRef

\* mutant: the window is half as long
ThrottledHalfWindow == now - imageCounter < ThrottleMs \div 2
\* now - imageCounter.current < 80
Throttled == now - imageCounter < ThrottleMs

\* mutant: the pending timer is not cleared
RestartRetireNoClear(q, h, t) == SetTimeout(q, "retire", t, RetireDelayMs)
\* clearTimeout(cleanupTimer.current) if set, then setTimeout(..., 500)
RestartRetire(q, h, t) ==
    SetTimeout(IF h # NoTimer THEN ClearTimeout(q, h) ELSE q, "retire", t, RetireDelayMs)

\* mutant: the client coordinates are taken as they are
CursorAtClient(e) == [x |-> e.clientX, y |-> e.clientY]
\* x = e.clientX - rect.left, y = e.clientY - rect.top
CursorAt(e) == [x |-> e.clientX - RectLeft, y |-> e.clientY - RectTop]

\* mutant: a pointer-leave replaces the clear that is pending
LeaveScheduleDebounced(q, t) ==
    SetTimeout(SelectSeq(q, LAMBDA c : c.kind # "clear"), "clear", t, LeaveDelayMs)
\* setTimeout(() => setFloatingImages([]), 200); the handle is dropped
LeaveSchedule(q, t) == SetTimeout(q, "clear", t, LeaveDelayMs)

\* mutant: the effect has no cleanup
UnmountCleanupNone(q, h) == q
\* the effect cleanup: clearTimeout(cleanupTimer.current) if it is set
UnmountCleanup(q, h) == IF h # NoTimer THEN ClearTimeout(q, h) ELSE q

\* mutant: the opacity has no floor
OpacityNoFloor(index) == 100 - index * OpacityStep
\* Math.max(0.15, 1 - index * 0.08), in hundredths
Opacity(index) == Max(OpacityFloor, 100 - index * OpacityStep)

\* the style of each rendered entry, by render index 0, 1, ...
\* (floatingImages.map((img, index) => ...))
RenderStyles(list) ==
    [k \in 1..Len(list) |->
        [key |-> list[k].id, zIndex |-> list[k].zIndex + (k - 1), opacity |-> Opacity(k - 1)]]

----------------------------------------------------------------------------
(* PlaceholderImage *)

PhDefault(opt, dflt) == IF opt = << >> THEN dflt ELSE opt[1]

\* mutant: the viewBox has height before width
PlaceholderImageSwapped(props) ==
    LET width  == PhDefault(props.width, DefaultWidth)
        height == PhDefault(props.height, DefaultHeight)
        color  == PhDefault(props.color, "3498db")
        text   == PhDefault(props.text, "Image")
    IN  [width   |-> width,
         height  |-> height,
         viewBox |-> "0 0 " \o ToString(height) \o " " \o ToString(width),
         fill    |-> "#" \o color,
         text    |-> text]

PlaceholderImage(props) ==
    LET width  == PhDefault(props.width, DefaultWidth)
        height == PhDefault(props.height, DefaultHeight)
        color  == PhDefault(props.color, "3498db")
        text   == PhDefault(props.text, "Image")
    IN  [width   |-> width,
         height  |-> height,
         viewBox |-> "0 0 " \o ToString(width) \o " " \o ToString(height),
         fill    |-> "#" \o color,
         text    |-> text]

NoProps == [width |-> << >>, height |-> << >>, color |-> << >>, text |-> << >>]
NotRendered == [width |-> 0, height |-> 0, viewBox |-> "", fill |-> "", text |-> ""]

PhWidths == {<< >>, <<0>>, <<1>>, <<800>>, <<1920>>}
PhHeights == {<< >>, <<1>>, <<600>>, <<1080>>}
PhColors == {<< >>, <<"3498db">>, <<"fff">>, <<"">>}
PhTexts == {<< >>, <<"Image">>, <<"">>, <<"No photo">>}
PhPropsSet == [width : PhWidths, height : PhHeights, color : PhColors, text : PhTexts]

----------------------------------------------------------------------------
(* Initial state: the component has just mounted *)

\* mutant: the accepted timestamp starts at the time of mount
BannerInitCounterNow ==
    /\ mounted = TRUE
    /\ containerRef = (Len(images) # 0)
    /\ floatingImages = << >>
    /\ mousePosition = Origin
    /\ imageCounter = StartTime
    /\ cleanupTimer = NoTimer
    /\ timers = << >>
    /\ now = StartTime
    /\ lastEvent = Ev("mount", 0, 0, 0, 0, 0, 0, 0, 0)
    /\ eventCount = 0

BannerInit ==
    /\ mounted = TRUE
    /\ containerRef = (Len(images) # 0)
    /\ floatingImages = << >>
    /\ mousePosition = Origin
    /\ imageCounter = 0
    /\ cleanupTimer = NoTimer
    /\ timers = << >>
    /\ now = StartTime
    /\ lastEvent = Ev("mount", 0, 0, 0, 0, 0, 0, 0, 0)
    /\ eventCount = 0

Init ==
    /\ images \in ImageLists
    /\ BannerInit
    /\ phProps = NoProps
    /\ phSvg = NotRendered

----------------------------------------------------------------------------
(* Handlers *)

onMouseMove(e, rnd) ==
    /\ mounted
    /\ eventCount < MaxEvents
    /\ eventCount' = eventCount + 1
    /\ IF RefMissing
       THEN /\ lastEvent' = Ev("moveNoRef", 0, 0, 0, Len(floatingImages), 0, 0, 0, 0)
            /\ UNCHANGED <<floatingImages, mousePosition, imageCounter, cleanupTimer, timers>>
       ELSE LET x == e.clientX - RectLeft
                y == e.clientY - RectTop
            IN  /\ mousePosition' = CursorAt(e)
                /\ IF Throttled
                   THEN /\ lastEvent' = Ev("moveThrottled", x, y, 0, Len(floatingImages),
                                           0, 0, imageCounter, 0)
                        /\ UNCHANGED <<floatingImages, imageCounter, cleanupTimer, timers>>
                   ELSE LET n == NumImages(rnd[1])
                            lists == Spawn(floatingImages, n, x, y, rnd, now)
                            q == RestartRetire(timers, cleanupTimer, now)
                        IN  /\ imageCounter' = now
                            /\ floatingImages' = lists[n]
                            /\ timers' = q
                            /\ cleanupTimer' = q[Len(q)]
                            /\ lastEvent' = Ev("moveAccepted", x, y, n, Len(floatingImages),
                                               Len(lists[1]), 0, imageCounter,
                                               Len(timers) + 1 - Len(q))
    /\ UNCHANGED <<images, mounted, containerRef, now, phVars>>

onMouseLeave ==
    /\ mounted
    /\ eventCount < MaxEvents
    /\ eventCount' = eventCount + 1
    /\ timers' = LeaveSchedule(timers, now)
    /\ lastEvent' = Ev("leave", 0, 0, 0, Len(floatingImages), 0, now, 0, 0)
    /\ UNCHANGED <<images, mounted, containerRef, floatingImages, mousePosition,
                   imageCounter, cleanupTimer, now, phVars>>

\* mutant: a touch-move restarts the retirement timer as a pointer-move does
onTouchRestartsRetire(e, rnd) ==
    /\ mounted
    /\ eventCount < MaxEvents
    /\ eventCount' = eventCount + 1
    /\ IF RefMissing
       THEN /\ lastEvent' = Ev("touchNoRef", 0, 0, 0, Len(floatingImages), 0, 0, 0, 0)
            /\ UNCHANGED <<floatingImages, cleanupTimer, timers>>
       ELSE LET x == e.clientX - RectLeft
                y == e.clientY - RectTop
                q == RestartRetire(timers, cleanupTimer, now)
            IN  /\ floatingImages' =
                       TouchUpdate(floatingImages, MakeImage(TouchId(now), x, y, rnd, 1))
                /\ timers' = q
                /\ cleanupTimer' = q[Len(q)]
                /\ lastEvent' = Ev("touch", x, y, 1, Len(floatingImages), 0, 0, 0, 0)
    /\ UNCHANGED <<images, mounted, containerRef, mousePosition, imageCounter, now, phVars>>

onTouch(e, rnd) ==
    /\ mounted
    /\ eventCount < MaxEvents
    /\ eventCount' = eventCount + 1
    /\ IF RefMissing
       THEN /\ lastEvent' = Ev("touchNoRef", 0, 0, 0, Len(floatingImages), 0, 0, 0, 0)
            /\ UNCHANGED floatingImages
       ELSE LET x == e.clientX - RectLeft
                y == e.clientY - RectTop
            IN  /\ floatingImages' =
                       TouchUpdate(floatingImages, MakeImage(TouchId(now), x, y, rnd, 1))
                /\ lastEvent' = Ev("touch", x, y, 1, Len(floatingImages), 0, 0, 0, 0)
    /\ UNCHANGED <<images, mounted, containerRef, mousePosition, imageCounter,
                   cleanupTimer, timers, now, phVars>>

\* the callback of the retirement timer (Banner.tsx:86-88); a state update of
\* an unmounted component is dropped
RetireFire ==
    /\ timers # << >>
    /\ NextDeadline(timers) <= now
    /\ LET i == NextTimerIndex(timers)
       IN  /\ timers[i].kind = "retire"
           /\ timers' = RemoveAt(timers, i)
           /\ lastEvent' = Ev("retire", 0, 0, 0, Len(floatingImages), 0,
                              timers[i].setAt, 0, 0)
    /\ floatingImages' = IF mounted THEN RetireUpdate(floatingImages) ELSE floatingImages
    /\ UNCHANGED <<images, mounted, containerRef, mousePosition, imageCounter,
                   cleanupTimer, now, eventCount, phVars>>

\* the callback of the clear-on-leave timer (Banner.tsx:95-97)
ClearFire ==
    /\ timers # << >>
    /\ NextDeadline(timers) <= now
    /\ LET i == NextTimerIndex(timers)
       IN  /\ timers[i].kind = "clear"
           /\ timers' = RemoveAt(timers, i)
           /\ lastEvent' = Ev("clear", 0, 0, 0, Len(floatingImages), 0,
                              timers[i].setAt, 0, 0)
    /\ floatingImages' = IF mounted THEN ClearUpdate(floatingImages) ELSE floatingImages
    /\ UNCHANGED <<images, mounted, containerRef, mousePosition, imageCounter,
                   cleanupTimer, now, eventCount, phVars>>

\* the effect cleanup (Banner.tsx:123-129); React then detaches the ref
Unmount ==
    /\ mounted
    /\ mounted' = FALSE
    /\ containerRef' = FALSE
    /\ timers' = UnmountCleanup(timers, cleanupTimer)
    /\ lastEvent' = Ev("unmount", 0, 0, 0, Len(floatingImages), 0, 0, 0,
                       Len(timers) - Len(timers'))
    /\ UNCHANGED <<images, floatingImages, mousePosition, imageCounter, cleanupTimer,
                   now, eventCount, phVars>>

\* the clock advances by d, stopping at the next timer deadline
Tick(d) ==
    /\ now < StartTime + Horizon
    /\ timers # << >> => NextDeadline(timers) > now
    /\ now' = IF timers # << >> THEN Min(now + d, NextDeadline(timers)) ELSE now + d
    /\ lastEvent' = Ev("tick", 0, 0, 0, Len(floatingImages), 0, 0, 0, 0)
    /\ UNCHANGED <<images, mounted, containerRef, floatingImages, mousePosition,
                   imageCounter, cleanupTimer, timers, eventCount, phVars>>

\* PlaceholderImage is called with phProps
PhRender ==
    /\ phSvg = NotRendered
    /\ phSvg' = PlaceholderImage(phProps)
    /\ UNCHANGED <<bannerVars, phProps>>

----------------------------------------------------------------------------
(* Specifications *)

\* every interleaving of events and timers from mount
Next ==
    \/ \E e \in ClientPoints, rnd \in RandomStreams : onMouseMove(e, rnd)
    \/ onMouseLeave
    \/ \E e \in ClientPoints, rnd \in RandomStreams : onTouch(e, rnd)
    \/ RetireFire
    \/ ClearFire
    \/ Unmount
    \/ \E d \in TickSteps : Tick(d)

Spec == Init /\ [][Next]_vars

\* The component after n accepted 2-image pointer-move bursts ThrottleMs apart,
\* the last at StartTime: the list the spawn loop has built, the time of the
\* last burst, and its retirement timer pending.
TrailPoint == CHOOSE e \in TrailClientPoints : TRUE
TrailStream == Stream(RandDen - 1, 0)
BurstTime(k, n) == StartTime - (n - k) * ThrottleMs
RECURSIVE BurstRun(_, _)
BurstRun(k, n) ==
    IF k = 0 THEN << >>
    ELSE LET lists == Spawn(BurstRun(k - 1, n), NumImages(TrailStream[1]),
                            TrailPoint.clientX - RectLeft, TrailPoint.clientY - RectTop,
                            TrailStream, BurstTime(k, n))
         IN  lists[Len(lists)]

InitTrail ==
    /\ images = <<"a.jpg", "b.jpg">>
    /\ phProps = NoProps
    /\ phSvg = NotRendered
    /\ \E n \in 0..MaxInitBursts :
          IF n = 0
          THEN BannerInit
          ELSE /\ mounted = TRUE
               /\ containerRef = TRUE
               /\ floatingImages = BurstRun(n, n)
               /\ mousePosition = [x |-> TrailPoint.clientX - RectLeft,
                                   y |-> TrailPoint.clientY - RectTop]
               /\ imageCounter = StartTime
               /\ cleanupTimer = TimerHandle("retire", StartTime, RetireDelayMs)
               /\ timers = <<TimerHandle("retire", StartTime, RetireDelayMs)>>
               /\ now = StartTime
               /\ lastEvent = Ev("moveAccepted", TrailPoint.clientX - RectLeft,
                                 TrailPoint.clientY - RectTop, 2,
                                 Len(BurstRun(n - 1, n)), Min(2 * n - 1, MaxLive), 0,
                                 IF n = 1 THEN 0 ELSE StartTime - ThrottleMs,
                                 IF n = 1 THEN 0 ELSE 1)
               /\ eventCount = 0

\* the same handlers, continuing a trail of bursts
NextTrail ==
    \/ \E e \in TrailClientPoints, rnd \in TrailRandomStreams : onMouseMove(e, rnd)
    \/ onMouseLeave
    \/ \E e \in TrailClientPoints, rnd \in TrailRandomStreams : onTouch(e, rnd)
    \/ RetireFire
    \/ ClearFire
    \/ Unmount
    \/ \E d \in TickSteps : Tick(d)

SpecTrail == InitTrail /\ [][NextTrail]_vars

\* PlaceholderImage on every combination of given and absent props
InitPlaceholder ==
    /\ images = << >>
    /\ BannerInit
    /\ phProps \in PhPropsSet
    /\ phSvg = NotRendered

NextPlaceholder == PhRender

SpecPlaceholder == InitPlaceholder /\ [][NextPlaceholder]_vars

----------------------------------------------------------------------------
(* Claims *)

MoveKinds == {"moveAccepted", "moveThrottled", "moveNoRef"}
Entries(list) == {list[i] : i \in 1..Len(list)}
Abs(v) == IF v < 0 THEN -v ELSE v

\* C1: the floating-image list never holds more than 12 entries, also after
\* the first of the two appends of a 2-image burst.
BoundedLive ==
    /\ Len(floatingImages) <= MaxLive
    /\ lastEvent.mid <= MaxLive

\* a 2-image burst has been appended to a full list
BoundedLiveWitness ==
    /\ lastEvent.kind = "moveAccepted"
    /\ eventCount > 0
    /\ lastEvent.n = 2
    /\ lastEvent.prevLen = MaxLive
    /\ lastEvent.mid = MaxLive
    /\ Len(floatingImages) = MaxLive

\* C2: an accepted pointer-move burst comes at least 80ms after the previously
\* accepted one, and a pointer-move fewer than 80ms after the last accepted
\* burst leaves the list (and the accepted timestamp) as they were.
ThrottleInvariant ==
    [][/\ lastEvent'.kind = "moveAccepted" =>
             /\ now' - imageCounter >= ThrottleMs
             /\ imageCounter' = now'
       /\ (/\ lastEvent'.kind \in MoveKinds
           /\ eventCount' = eventCount + 1
           /\ now - imageCounter < ThrottleMs) =>
             /\ floatingImages' = floatingImages
             /\ imageCounter' = imageCounter]_vars

\* a pointer-move has been rejected a positive time after an accepted burst
ThrottleWitness ==
    /\ lastEvent.kind = "moveThrottled"
    /\ now - imageCounter > 0
    /\ now - imageCounter < ThrottleMs
    /\ floatingImages # << >>

\* C3: while the component is mounted, a list of more than 6 entries has a
\* retirement timer pending that is due 500ms after the last accepted burst
\* and not overdue; so from 500ms after the last accepted burst, once the
\* callback has run, until the next accepted burst the list has at most 6.
RetiredAfterQuiet ==
    mounted =>
        /\ \A i \in Pending("retire") :
              /\ timers[i].deadline = imageCounter + RetireDelayMs
              /\ now <= timers[i].deadline
        /\ Pending("retire") = {} => Len(floatingImages) <= RetireKeep

\* the retirement callback has cut a longer list, 500ms after the last burst
RetiredAfterQuietWitness ==
    /\ mounted
    /\ lastEvent.kind = "retire"
    /\ lastEvent.prevLen > RetireKeep
    /\ Len(floatingImages) = RetireKeep
    /\ now = imageCounter + RetireDelayMs

\* C4: a touch-move on a mounted Banner with images appends one image with the
\* touch id as the last entry, after the (at most) 3 most recent previous
\* entries in their order; the list then has at most 4 entries.
TouchKeepsFour ==
    [][(lastEvent'.kind = "touch" /\ eventCount' = eventCount + 1) =>
          LET old == floatingImages
              new == floatingImages'
              kept == Min(Len(old), TouchKeep)
          IN  /\ Len(new) = kept + 1
              /\ Len(new) <= TouchKeep + 1
              /\ new[Len(new)].id = TouchId(now)
              /\ new[Len(new)].src \in Entries(images)
              /\ \A k \in 1..kept : new[k] = old[Len(old) - kept + k]]_vars

\* a touch-move has cut a list of more than 4 entries
TouchKeepsFourWitness ==
    /\ lastEvent.kind = "touch"
    /\ lastEvent.prevLen > TouchKeep + 1
    /\ Len(floatingImages) = TouchKeep + 1

\* C5: a clear scheduled by a pointer-leave runs exactly 200ms after the
\* leave, never later, and leaves the list of the mounted component empty.
ClearedAfterLeave ==
    /\ \A i \in Pending("clear") :
          /\ timers[i].deadline = timers[i].setAt + LeaveDelayMs
          /\ now <= timers[i].deadline
    /\ (mounted /\ lastEvent.kind = "clear") =>
          /\ floatingImages = << >>
          /\ now = lastEvent.setAt + LeaveDelayMs

\* the clear has emptied a list that held images
ClearedAfterLeaveWitness ==
    /\ mounted
    /\ lastEvent.kind = "clear"
    /\ lastEvent.prevLen > 0
    /\ floatingImages = << >>

\* C6: with images = [] the ref is never set and the list stays empty.
EmptyImagesNoSpawn ==
    Len(images) = 0 => (floatingImages = << >> /\ ~containerRef)

\* pointer-move and touch-move handlers have run with images = []
EmptyImagesNoSpawnWitness ==
    /\ Len(images) = 0
    /\ lastEvent.kind \in {"moveNoRef", "touchNoRef"}
    /\ eventCount = MaxEvents

\* C7: the ids of the entries of the list are pairwise distinct.
UniqueIds ==
    \A i, j \in 1..Len(floatingImages) :
        i # j => floatingImages[i].id # floatingImages[j].id

\* C8: every image is created within 50 of the event's local coordinates, with
\* rotation in [-6, 6], scale in [0.9, 1.2], zIndex in 0..14 and a src of
\* images, and an entry that stays in the list is not changed.
InRange(img) ==
    /\ Abs(img.rotation) * 2 <= RotationSpread * RandDen
    /\ img.scale >= 9 * RandDen
    /\ img.scale <= 12 * RandDen
    /\ img.zIndex \in 0..(ZIndexRange - 1)
    /\ img.src \in Entries(images)

ImageFieldsBounded ==
    [][LET old == floatingImages
           new == floatingImages'
           created == IF /\ lastEvent'.kind \in {"moveAccepted", "touch"}
                         /\ eventCount' = eventCount + 1
                      THEN lastEvent'.n ELSE 0
       IN  /\ \A k \in 1..Len(new) : InRange(new[k])
           /\ \A k \in 1..Len(new) :
                 IF k > Len(new) - created
                 THEN /\ Abs(new[k].x - lastEvent'.x * RandDen) * 2 <= JitterSpread * RandDen
                      /\ Abs(new[k].y - lastEvent'.y * RandDen) * 2 <= JitterSpread * RandDen
                 ELSE new[k] \in Entries(old)]_vars

\* images spawned with the largest and with the smallest draws are in the list
ImageFieldsBoundedWitness ==
    /\ \E i \in 1..Len(floatingImages) :
          /\ floatingImages[i].zIndex = ZIndexRange - 1
          /\ floatingImages[i].scale > 9 * RandDen
    /\ \E i \in 1..Len(floatingImages) :
          /\ floatingImages[i].rotation * 2 = -(RotationSpread * RandDen)
          /\ floatingImages[i].zIndex = 0

\* C9: PlaceholderImage declares the given (or default) width and height, the
\* viewBox "0 0 width height", the fill "#" + color and the label text.
PlaceholderFaithful ==
    phSvg # NotRendered =>
        LET w == IF phProps.width = << >> THEN 800 ELSE phProps.width[1]
            h == IF phProps.height = << >> THEN 600 ELSE phProps.height[1]
        IN  /\ phSvg.width = w
            /\ phSvg.height = h
            /\ phSvg.viewBox = "0 0 " \o ToString(w) \o " " \o ToString(h)
            /\ phSvg.fill = (IF phProps.color = << >> THEN "#3498db"
                            ELSE "#" \o phProps.color[1])
            /\ phSvg.text = (IF phProps.text = << >> THEN "Image" ELSE phProps.text[1])

\* PlaceholderImage has rendered with width and height given and different
PlaceholderFaithfulWitness ==
    /\ phSvg # NotRendered
    /\ phProps.width = <<1920>>
    /\ phProps.height = <<1080>>
    /\ phProps.color = <<"fff">>
    /\ phSvg.viewBox = "0 0 1920 1080"

\* C10: at most one retirement timer is pending, and it is the one whose
\* handle cleanupTimer holds.
SingleRetireTimer ==
    /\ Cardinality(Pending("retire")) <= 1
    /\ \A i \in Pending("retire") : timers[i] = cleanupTimer

\* an accepted burst has cancelled the pending retirement timer
SingleRetireTimerWitness ==
    /\ lastEvent.kind = "moveAccepted"
    /\ eventCount > 0
    /\ lastEvent.cancelled = 1
    /\ Cardinality(Pending("retire")) = 1

\* C11: the retirement callback runs no earlier than 500ms after the most
\* recent accepted burst (it is the timer that burst set), keeps the last
\* min(6, length) entries in their order and changes nothing else.
LatestRetirementOnly ==
    [][lastEvent'.kind = "retire" =>
          LET old == floatingImages
              kept == Min(Len(old), RetireKeep)
          IN  /\ lastEvent'.setAt = imageCounter
              /\ now >= imageCounter + RetireDelayMs
              /\ Len(floatingImages') = kept
              /\ \A k \in 1..kept : floatingImages'[k] = old[Len(old) - kept + k]
              /\ Len(timers') = Len(timers) - 1
              /\ UNCHANGED <<images, mounted, containerRef, mousePosition,
                             imageCounter, cleanupTimer, now, eventCount>>]_vars

\* the timer of a later burst, which replaced an earlier one, has cut the list
LatestRetirementOnlyWitness ==
    /\ lastEvent.kind = "retire"
    /\ lastEvent.setAt > StartTime
    /\ lastEvent.setAt = imageCounter
    /\ lastEvent.prevLen > RetireKeep
    /\ Len(floatingImages) = RetireKeep
    /\ now = lastEvent.setAt + RetireDelayMs

\* C12: an accepted burst of n = 1 or 2 images leaves the last min(12, old
\* length + n) entries of the old list followed by the new images, which are
\* its last n entries, in creation order.
BurstAppendsNewest ==
    [][(lastEvent'.kind = "moveAccepted" /\ eventCount' = eventCount + 1) =>
          LET old == floatingImages
              new == floatingImages'
              n == lastEvent'.n
              keptOld == Min(Len(old), MaxLive - n)
          IN  /\ n \in {1, 2}
              /\ Len(new) = Min(MaxLive, Len(old) + n)
              /\ Len(new) = keptOld + n
              /\ \A k \in 1..keptOld : new[k] = old[Len(old) - keptOld + k]
              /\ \A i \in 0..(n - 1) : new[keptOld + 1 + i].id = MouseId(now, i)]_vars

\* a 1-image burst has pushed the oldest entry out of a full list
BurstAppendsNewestWitness ==
    /\ lastEvent.kind = "moveAccepted"
    /\ eventCount > 0
    /\ lastEvent.n = 1
    /\ lastEvent.prevLen = MaxLive
    /\ Len(floatingImages) = MaxLive
    /\ floatingImages[MaxLive].id = MouseId(now, 0)

\* C13: a pointer-move on the rendered Banner sets the cursor position to the
\* event's container-local coordinates, accepted or not; it is rejected
\* exactly when fewer than 80ms have passed since the last accepted burst, and
\* then the list, the accepted timestamp and the timers stay as they are.
CursorFollowsEveryMove ==
    [][/\ (lastEvent'.kind \in {"moveAccepted", "moveThrottled"}
           /\ eventCount' = eventCount + 1) =>
             /\ \E e \in ClientPoints \cup TrailClientPoints :
                   /\ lastEvent'.x = e.clientX - RectLeft
                   /\ lastEvent'.y = e.clientY - RectTop
                   /\ mousePosition' = [x |-> e.clientX - RectLeft,
                                        y |-> e.clientY - RectTop]
             /\ (lastEvent'.kind = "moveThrottled") = (now - imageCounter < ThrottleMs)
             /\ lastEvent'.kind = "moveThrottled" =>
                   UNCHANGED <<floatingImages, imageCounter, cleanupTimer, timers>>
       /\ lastEvent'.kind = "moveNoRef" => ~containerRef]_vars

\* a rejected pointer-move has moved the cursor away from where the images of
\* the list were spawned, with the retirement timer still pending
CursorFollowsEveryMoveWitness ==
    /\ lastEvent.kind = "moveThrottled"
    /\ mousePosition = [x |-> 400 - RectLeft, y |-> 220 - RectTop]
    /\ floatingImages # << >>
    /\ \A i \in 1..Len(floatingImages) :
          Abs(floatingImages[i].x - (110 - RectLeft) * RandDen) * 2 <= JitterSpread * RandDen
    /\ Pending("retire") # {}

NumClears(q) == Len(SelectSeq(q, LAMBDA t : t.kind = "clear"))

\* C14: a pointer-leave appends its own clear, due 200ms later, and leaves the
\* list, the cursor, the accepted timestamp and the retirement handle as they
\* are; no step removes a pending clear except that clear's own callback,
\* which runs 200ms after its leave and empties the mounted component's list.
ClearNeverCancelled ==
    [][/\ lastEvent'.kind = "leave" =>
             /\ timers' = Append(timers, [kind |-> "clear", setAt |-> now,
                                          deadline |-> now + LeaveDelayMs])
             /\ UNCHANGED <<floatingImages, mousePosition, imageCounter, cleanupTimer>>
       /\ NumClears(timers') >=
             NumClears(timers) - (IF lastEvent'.kind = "clear" THEN 1 ELSE 0)
       /\ lastEvent'.kind = "clear" =>
             /\ now = lastEvent'.setAt + LeaveDelayMs
             /\ mounted => floatingImages' = << >>]_vars

\* the clear has removed images of a burst accepted after its pointer-leave
ClearNeverCancelledWitness ==
    /\ mounted
    /\ lastEvent.kind = "clear"
    /\ imageCounter > lastEvent.setAt
    /\ lastEvent.prevLen > 0
    /\ floatingImages = << >>

\* C15: a touch-move on the rendered Banner spawns its image whatever the time
\* since the last spawn, and leaves the accepted timestamp, the retirement
\* handle, the timer queue and the cursor position as they are.
TouchIndependent ==
    [][/\ (lastEvent'.kind = "touch" /\ eventCount' = eventCount + 1) =>
             /\ UNCHANGED <<imageCounter, cleanupTimer, timers, mousePosition>>
             /\ Len(floatingImages') = Min(Len(floatingImages), TouchKeep) + 1
             /\ floatingImages'[Len(floatingImages')].id = TouchId(now)
       /\ lastEvent'.kind = "touchNoRef" => ~containerRef]_vars

\* a touch-move has spawned in the millisecond of an accepted pointer-move
\* burst, inside the throttle window
TouchIndependentWitness ==
    /\ lastEvent.kind = "touch"
    /\ imageCounter = now
    /\ lastEvent.prevLen > 0
    /\ Pending("retire") # {}
    /\ floatingImages[Len(floatingImages)].id = TouchId(now)

\* C16: once the component is unmounted no retirement timer is pending and no
\* retirement callback runs.
NoRetireAfterUnmount ==
    ~mounted => (Pending("retire") = {} /\ lastEvent.kind # "retire")

\* after an unmount with the retirement timer pending, its deadline has passed
\* and the list was not cut
NoRetireAfterUnmountWitness ==
    /\ ~mounted
    /\ lastEvent.kind = "tick"
    /\ imageCounter > 0
    /\ now >= imageCounter + RetireDelayMs
    /\ Len(floatingImages) > RetireKeep

\* C17: after unmount no timer callback of the instance runs, neither the
\* retirement nor a clear-on-leave.
NoCallbackAfterUnmount ==
    ~mounted => lastEvent.kind \notin {"retire", "clear"}

\* C18: the first pointer-move on the rendered Banner (no burst accepted yet)
\* is accepted, spawns at least one image and schedules the retirement timer;
\* the accepted timestamp is 0 until then, and only an accepted pointer-move
\* changes it, to the time of that move.
FirstMoveAccepted ==
    [][/\ (/\ lastEvent'.kind \in MoveKinds
           /\ eventCount' = eventCount + 1
           /\ containerRef
           /\ cleanupTimer = NoTimer) =>
             /\ imageCounter = 0
             /\ lastEvent'.kind = "moveAccepted"
             /\ Len(floatingImages') >= 1
             /\ cleanupTimer' = [kind |-> "retire", setAt |-> now,
                                 deadline |-> now + RetireDelayMs]
             /\ \E i \in 1..Len(timers') : timers'[i] = cleanupTimer'
       /\ lastEvent'.kind = "moveAccepted" => imageCounter' = now
       /\ imageCounter' # imageCounter => lastEvent'.kind = "moveAccepted"]_vars

\* the first pointer-move came after touch-moves and was accepted
FirstMoveAcceptedWitness ==
    /\ lastEvent.kind = "moveAccepted"
    /\ lastEvent.prevAccept = 0
    /\ lastEvent.prevLen > 0
    /\ lastEvent.cancelled = 0
    /\ imageCounter = now
    /\ Pending("retire") # {}

\* C19: the entry at render index i is drawn with stacking order zIndex + i and
\* opacity max(0.15, 1 - 0.08 i) (in hundredths): 1 at index 0, never below
\* 0.15 and never rising with the index.
RenderFades ==
    LET r == RenderStyles(floatingImages)
        len == Len(floatingImages)
    IN  /\ Len(r) = len
        /\ len <= MaxLive
        /\ \A k \in 1..len :
              /\ r[k].zIndex = floatingImages[k].zIndex + (k - 1)
              /\ r[k].opacity = (IF 100 - 8 * (k - 1) > 15 THEN 100 - 8 * (k - 1) ELSE 15)
              /\ r[k].opacity >= 15
        /\ len >= 1 => r[1].opacity = 100
        /\ \A k \in 1..(len - 1) : r[k + 1].opacity <= r[k].opacity

\* a list of 12 entries is rendered after a burst, the last entry at the floor
RenderFadesWitness ==
    /\ eventCount > 0
    /\ lastEvent.kind = "moveAccepted"
    /\ Len(floatingImages) = MaxLive
    /\ RenderStyles(floatingImages)[MaxLive].opacity = 15
    /\ RenderStyles(floatingImages)[MaxLive - 1].opacity = 20
    /\ RenderStyles(floatingImages)[MaxLive].zIndex = floatingImages[MaxLive].zIndex + 11

====
